---- MODULE Spec2Model ----
(***************************************************************************)
(* Model of the socket session of rust-screeps-api (src/src/sockets/mod.rs) *)
(* one ApiHandler driven by the ws transport's callbacks, the user Handler  *)
(* it owns, the Sender it sends through and the token storage it shares     *)
(* with the HTTP layer.                                                     *)
(*                                                                         *)
(* Strings are sequences of one-character strings, so that concatenation    *)
(* and JSON escaping are computed.  An Option is <<>> (None) or <<v>>.      *)
(***************************************************************************)
EXTENDS Integers, Sequences, FiniteSets, Bags, TLC

VARIABLES
    token,      \* the TokenStorage slot: None or Some(t)
    retrying,   \* ApiHandler.retrying: handle -> FailState
    timers,     \* timers armed in the transport and not yet fired
    conn,       \* "open" until the transport closes the connection
    opens,      \* Open frames received so far
    auths,      \* auth frames accepted by the transport so far
    foreign,    \* timers armed by user code that have fired so far
    peer,       \* another session that connect built over a clone of the storage
    uses,       \* auth commands that carried the value of the latest set
    handed,     \* auth frames this session handed to the transport so far
    http,       \* the HTTP response being interpreted, and how many were so far
    ev,         \* the event handled by the last step
    pre,        \* the storage, the mapping and the timers before the last step
    ws,         \* calls made on the transport during the last step, with results
    calls,      \* calls made on the user Handler during the last step
    ret         \* what the last callback returned to the transport

vars == <<token, retrying, timers, conn, opens, auths, foreign, peer, uses,
          handed, http,
          ev, pre, ws, calls, ret>>

---------------------------------------------------------------------------
\* Bounds of the model.

MaxOpens == 2
MaxBatch == 2
MaxForeign == 1
MaxPeerOpens == 1
MaxParts == 2
MaxCmdLen == 3
MaxOk == 2
MaxRooms == 2
MaxShards == 2
MaxHeaders == 2
MaxResponses == 2

---------------------------------------------------------------------------
\* Values.

None == <<>>
Some(v) == <<v>>

Ok == "Ok"

\* Tokens the HTTP layer may store; one of them needs JSON escaping.
Tokens == { <<"t", "1">>, <<"k", "\"">> }

\* Application payloads carried by m and a frames: "x", "xx", ..., all distinct.
Payload(i) == [j \in 1..i |-> "x"]


\* What the transport answers to send and timeout.
WsErrSend == "WsSendFailed"
WsErrTimeout == "WsTimeoutFailed"
SendResults == {Ok, WsErrSend}
ArmResults == {Ok, WsErrTimeout}

\* What the transport reports through its own on_error callback.
WsErrors == {"WsIo"}

\* What the user's on_message may return.
UserErrors == {"E1", "E2"}

\* The user's on_message over the calls of one callback: it succeeds on the
\* first k - 1 calls and fails with e from the k-th on (never, when k = n + 1).
UserBehaviours(n) ==
    {[i \in 1..n |-> IF i < k THEN Ok ELSE e] : k \in 1..(n + 1), e \in UserErrors}

Login == "Login"

LoginRetrySecs == 15

\* std::time::Duration
from_secs(secs) == [secs |-> secs, nanos |-> 0]

\* millis without the conversion of the seconds
millis_secs_unscaled(d) == (d.nanos \div 1000000) + d.secs

\* The milliseconds mark_retry passes to the transport.
millis(d) == (d.nanos \div 1000000) + d.secs * 1000

---------------------------------------------------------------------------
\* Errors as the user Handler sees them (sockets::Error).

from_ws_error(e) == [type |-> "Ws", inner |-> e]
from_http_error(e) == [type |-> "Http", inner |-> e]
from_parse_error(e) == [type |-> "Parse", inner |-> e]

Unauthorized == from_http_error("Unauthorized")

---------------------------------------------------------------------------
\* Inbound frames: a one-letter prefix and a body, the body being empty,
\* a JSON value or text that is no JSON.

JS(s) == [t |-> "s", v |-> s]
JN(n) == [t |-> "n", v |-> n]
JA(a) == [t |-> "a", v |-> a]
Empty == [t |-> "empty"]
NotJson == [t |-> "bad"]

\* The batches of an a frame: the first k payloads for k up to MaxBatch, and
\* all MaxBatch of them in the opposite order.
Batches ==
    {[i \in 1..k |-> Payload(i)] : k \in 0..MaxBatch}
        \cup {[i \in 1..MaxBatch |-> Payload(MaxBatch + 1 - i)]}

\* [1000,"r"]; a number is kept as its digits
CloseCode == <<"1", "0", "0", "0">>

CloseBody == JA(<<JN(CloseCode), JS(<<"r">>)>>)

Frame(p, b) == [prefix |-> p, body |-> b]

WellFormed ==
    {Frame("o", Empty), Frame("h", Empty), Frame("c", CloseBody)}
        \cup {Frame("m", JS(Payload(1)))}
        \cup {Frame("a", JA([i \in DOMAIN b |-> JS(b[i])])) : b \in Batches}

\* An unknown prefix, and bodies that are not of the shape the prefix requires.
Malformed ==
    {Frame("x", Empty), Frame("a", JA(<<JN(CloseCode)>>)), Frame("c", NotJson)}

InboundTexts == WellFormed \cup Malformed

IsStr(j) == j.t = "s"
IsNum(j) == j.t = "n"
IsArr(j) == j.t = "a"

POpen == [kind |-> "Open"]
PHeartbeat == [kind |-> "Heartbeat"]
PClose(code, reason) == [kind |-> "Close", code |-> code, reason |-> reason]
PMessage(m) == [kind |-> "Message", msg |-> m]
PMessages(ms) == [kind |-> "Messages", msgs |-> ms]

ParseOk(v) == [ok |-> TRUE, val |-> v]
ParseErr(text) == [ok |-> FALSE, err |-> text]

\* parsing::ParsedResult::parse
parse(text) ==
    LET b == text.body IN
    CASE text.prefix = "o" /\ b = Empty -> ParseOk(POpen)
      [] text.prefix = "h" /\ b = Empty -> ParseOk(PHeartbeat)
      [] text.prefix = "c" /\ IsArr(b) /\ Len(b.v) = 2
            /\ IsNum(b.v[1]) /\ IsStr(b.v[2]) -> ParseOk(PClose(b.v[1].v, b.v[2].v))
      [] text.prefix = "m" /\ IsStr(b) -> ParseOk(PMessage(b.v))
      [] text.prefix = "a" /\ IsArr(b) /\ (\A i \in DOMAIN b.v : IsStr(b.v[i]))
            -> ParseOk(PMessages([i \in DOMAIN b.v |-> b.v[i].v]))
      [] OTHER -> ParseErr(text)

Text(s) == [type |-> "Text", text |-> s]
Binary(b) == [type |-> "Binary", data |-> b]

InboundMessages == {Text(s) : s \in InboundTexts} \cup {Binary(<<0>>)}

---------------------------------------------------------------------------
\* Outbound frames.

RECURSIVE json_escape(_)
\* serde_json's escaping of the characters of a string
json_escape(s) ==
    IF s = <<>> THEN <<>>
    ELSE LET c == Head(s) IN
         (IF c = "\"" THEN <<"\\", "\"">>
          ELSE IF c = "\\" THEN <<"\\", "\\">>
          ELSE IF c = "\n" THEN <<"\\", "n">>
          ELSE <<c>>) \o json_escape(Tail(s))

\* serde_json::to_string(&(message,))
to_json_tuple1(message) == <<"[", "\"">> \o json_escape(message) \o <<"\"", "]">>

EmptyFrame == <<"[", "]">>

AuthPrefix == <<"a", "u", "t", "h", " ">>

---------------------------------------------------------------------------
\* The session as a value: what a callback reads and writes.  Callbacks are
\* operators from a session (and the answers of the transport and of the user's
\* code) to [s |-> the session afterwards, ret |-> Ok or the error returned].

Sess == [token |-> token, retrying |-> retrying, timers |-> timers,
         ws |-> <<>>, calls |-> <<>>]

Result(s, r) == [s |-> s, ret |-> r]

\* ws::Sender::send, answered res by the transport
ws_send(s, data, res) ==
    Result([s EXCEPT !.ws = Append(@, [op |-> "send", data |-> data, res |-> res])],
           res)

\* ws::Sender::timeout, answered res by the transport: armed only when accepted
ws_timeout(s, ms, tok, res) ==
    Result([s EXCEPT !.ws = Append(@, [op |-> "timeout", ms |-> ms, tok |-> tok,
                                        res |-> res]),
                     !.timers = IF res = Ok
                                THEN @ (+) SetToBag({[tok |-> tok, ms |-> ms]})
                                ELSE @],
           res)

\* TokenStorage::take_token: reads and clears the slot in one step
take_token(s) == [s |-> [s EXCEPT !.token = None], val |-> s.token]

\* TokenStorage::set
set_token(slot, t) == Some(t)

---------------------------------------------------------------------------
\* The user Handler, with the trait's default on_communication.

Handler_on_error(s, err) ==
    [s EXCEPT !.calls = Append(@, [fn |-> "on_error", err |-> err])]

\* the user's on_message, returning r (kept with the call, as the user saw it)
Handler_on_message(s, msg, r) ==
    Result([s EXCEPT !.calls = Append(@, [fn |-> "on_message", msg |-> msg,
                                           ret |-> r])],
           r)

RECURSIVE for_each_message_all(_, _, _, _)
\* the loop going on after a failed on_message, the failure dropped
for_each_message_all(s, messages, i, user) ==
    IF i > Len(messages) THEN Result(s, Ok)
    ELSE for_each_message_all(Handler_on_message(s, messages[i], user[i]).s,
                              messages, i + 1, user)

RECURSIVE for_each_message(_, _, _, _)
\* for msg in messages { self.on_message(msg)? }  Ok(())
for_each_message(s, messages, i, user) ==
    IF i > Len(messages) THEN Result(s, Ok)
    ELSE LET r == Handler_on_message(s, messages[i], user[i]) IN
         IF r.ret # Ok THEN r
         ELSE for_each_message(r.s, messages, i + 1, user)

Handler_on_communication(s, result, user) ==
    LET s1 == [s EXCEPT !.calls =
                   Append(@, [fn |-> "on_communication", result |-> result])]
    IN CASE result.kind = "Message" -> Handler_on_message(s1, result.msg, user[1])
         [] result.kind = "Messages" -> for_each_message(s1, result.msgs, 1, user)
         [] result.kind = "Heartbeat" -> Result(s1, Ok)
         [] result.kind = "Open" -> Result(s1, Ok)
         [] result.kind = "Close" -> Result(s1, Ok)

---------------------------------------------------------------------------
\* Sender.

\* send_raw putting the message between quotes without escaping it
send_raw_unescaped(s, message, res) ==
    ws_send(s, <<"[", "\"">> \o message \o <<"\"", "]">>, res)

\* Sender::send_raw
send_raw(s, message, res) == ws_send(s, to_json_tuple1(message), res)

authenticate(s, tok, res) == send_raw(s, AuthPrefix \o tok, res)

send_empty_frame(s, res) == ws_send(s, EmptyFrame, res)

---------------------------------------------------------------------------
\* Channels.  str(s) stands for the characters of a Rust string literal.

\* identifiers are built from at most MaxParts of these pieces
Atoms == {<<"a">>, <<"/">>, <<":">>, <<"\"">>, <<"/", "m", "e", "s", "s", "a", "g", "e", ":">>}

RECURSIVE Concats(_)
\* the strings made of at most n pieces
Concats(n) ==
    IF n = 0 THEN {<<>>}
    ELSE Concats(n - 1) \cup {s \o a : s \in Concats(n - 1), a \in Atoms}

\* user ids, target user ids, memory paths and room names
Ids == Concats(MaxParts)

ServerMessages == [variant |-> "ServerMessages"]
UserCpu(user_id) == [variant |-> "UserCpu", user_id |-> user_id]
UserMessages(user_id) == [variant |-> "UserMessages", user_id |-> user_id]
UserConversation(user_id, target_user_id) ==
    [variant |-> "UserConversation", user_id |-> user_id,
     target_user_id |-> target_user_id]
UserCredits(user_id) == [variant |-> "UserCredits", user_id |-> user_id]
UserMemoryPath(user_id, path) ==
    [variant |-> "UserMemoryPath", user_id |-> user_id, path |-> path]
UserConsole(user_id) == [variant |-> "UserConsole", user_id |-> user_id]
UserActiveBranch(user_id) == [variant |-> "UserActiveBranch", user_id |-> user_id]
MapRoomUpdates(room_name) == [variant |-> "MapRoomUpdates", room_name |-> room_name]
RoomUpdates(room_name) == [variant |-> "RoomUpdates", room_name |-> room_name]

Channels ==
    {ServerMessages}
        \cup {UserCpu(u) : u \in Ids}
        \cup {UserMessages(u) : u \in Ids}
        \cup {UserConversation(u, t) : u \in Ids, t \in Ids}
        \cup {UserCredits(u) : u \in Ids}
        \cup {UserMemoryPath(u, p) : u \in Ids, p \in Ids}
        \cup {UserConsole(u) : u \in Ids}
        \cup {UserActiveBranch(u) : u \in Ids}
        \cup {MapRoomUpdates(r) : r \in Ids}
        \cup {RoomUpdates(r) : r \in Ids}

\* chain_and_complete_message chaining the target user id before the user id
chain_and_complete_message_swapped(self, start) ==
    CASE self.variant = "ServerMessages" -> start \o <<"s", "e", "r", "v", "e", "r", "-", "m", "e", "s", "s", "a", "g", "e">>
      [] self.variant = "UserCpu" -> start \o <<"u", "s", "e", "r", ":">> \o self.user_id \o <<"/", "c", "p", "u">>
      [] self.variant = "UserMessages" ->
             start \o <<"u", "s", "e", "r", ":">> \o self.user_id \o <<"/", "n", "e", "w", "M", "e", "s", "s", "a", "g", "e">>
      [] self.variant = "UserConversation" ->
             start \o <<"u", "s", "e", "r", ":">> \o self.target_user_id \o <<"/", "m", "e", "s", "s", "a", "g", "e", ":">>
                   \o self.user_id
      [] self.variant = "UserCredits" -> start \o <<"u", "s", "e", "r", ":">> \o self.user_id \o <<"/", "m", "o", "n", "e", "y">>
      [] self.variant = "UserMemoryPath" ->
             start \o <<"u", "s", "e", "r", ":">> \o self.user_id \o <<"/", "m", "e", "m", "o", "r", "y", "/">> \o self.path
      [] self.variant = "UserConsole" ->
             start \o <<"u", "s", "e", "r", ":">> \o self.user_id \o <<"/", "c", "o", "n", "s", "o", "l", "e">>
      [] self.variant = "UserActiveBranch" ->
             start \o <<"u", "s", "e", "r", ":">> \o self.user_id \o <<"/", "s", "e", "t", "-", "a", "c", "t", "i", "v", "e", "-", "b", "r", "a", "n", "c", "h">>
      [] self.variant = "MapRoomUpdates" -> start \o <<"r", "o", "o", "m", "M", "a", "p", "2", ":">> \o self.room_name
      [] self.variant = "RoomUpdates" -> start \o <<"r", "o", "o", "m", ":">> \o self.room_name

\* chain_and_complete_message leaving the path of a memory channel out
chain_and_complete_message_nopath(self, start) ==
    CASE self.variant = "ServerMessages" -> start \o <<"s", "e", "r", "v", "e", "r", "-", "m", "e", "s", "s", "a", "g", "e">>
      [] self.variant = "UserCpu" -> start \o <<"u", "s", "e", "r", ":">> \o self.user_id \o <<"/", "c", "p", "u">>
      [] self.variant = "UserMessages" ->
             start \o <<"u", "s", "e", "r", ":">> \o self.user_id \o <<"/", "n", "e", "w", "M", "e", "s", "s", "a", "g", "e">>
      [] self.variant = "UserConversation" ->
             start \o <<"u", "s", "e", "r", ":">> \o self.user_id \o <<"/", "m", "e", "s", "s", "a", "g", "e", ":">>
                   \o self.target_user_id
      [] self.variant = "UserCredits" -> start \o <<"u", "s", "e", "r", ":">> \o self.user_id \o <<"/", "m", "o", "n", "e", "y">>
      [] self.variant = "UserMemoryPath" ->
             start \o <<"u", "s", "e", "r", ":">> \o self.user_id \o <<"/", "m", "e", "m", "o", "r", "y", "/">>
      [] self.variant = "UserConsole" ->
             start \o <<"u", "s", "e", "r", ":">> \o self.user_id \o <<"/", "c", "o", "n", "s", "o", "l", "e">>
      [] self.variant = "UserActiveBranch" ->
             start \o <<"u", "s", "e", "r", ":">> \o self.user_id \o <<"/", "s", "e", "t", "-", "a", "c", "t", "i", "v", "e", "-", "b", "r", "a", "n", "c", "h">>
      [] self.variant = "MapRoomUpdates" -> start \o <<"r", "o", "o", "m", "M", "a", "p", "2", ":">> \o self.room_name
      [] self.variant = "RoomUpdates" -> start \o <<"r", "o", "o", "m", ":">> \o self.room_name

\* Channel::chain_and_complete_message: start chained with the pieces of the
\* variant, collected
chain_and_complete_message(self, start) ==
    CASE self.variant = "ServerMessages" -> start \o <<"s", "e", "r", "v", "e", "r", "-", "m", "e", "s", "s", "a", "g", "e">>
      [] self.variant = "UserCpu" -> start \o <<"u", "s", "e", "r", ":">> \o self.user_id \o <<"/", "c", "p", "u">>
      [] self.variant = "UserMessages" ->
             start \o <<"u", "s", "e", "r", ":">> \o self.user_id \o <<"/", "n", "e", "w", "M", "e", "s", "s", "a", "g", "e">>
      [] self.variant = "UserConversation" ->
             start \o <<"u", "s", "e", "r", ":">> \o self.user_id \o <<"/", "m", "e", "s", "s", "a", "g", "e", ":">>
                   \o self.target_user_id
      [] self.variant = "UserCredits" -> start \o <<"u", "s", "e", "r", ":">> \o self.user_id \o <<"/", "m", "o", "n", "e", "y">>
      [] self.variant = "UserMemoryPath" ->
             start \o <<"u", "s", "e", "r", ":">> \o self.user_id \o <<"/", "m", "e", "m", "o", "r", "y", "/">> \o self.path
      [] self.variant = "UserConsole" ->
             start \o <<"u", "s", "e", "r", ":">> \o self.user_id \o <<"/", "c", "o", "n", "s", "o", "l", "e">>
      [] self.variant = "UserActiveBranch" ->
             start \o <<"u", "s", "e", "r", ":">> \o self.user_id \o <<"/", "s", "e", "t", "-", "a", "c", "t", "i", "v", "e", "-", "b", "r", "a", "n", "c", "h">>
      [] self.variant = "MapRoomUpdates" -> start \o <<"r", "o", "o", "m", "M", "a", "p", "2", ":">> \o self.room_name
      [] self.variant = "RoomUpdates" -> start \o <<"r", "o", "o", "m", ":">> \o self.room_name

\* Channel::to_string
to_string(self) == chain_and_complete_message(self, <<>>)

\* subscribe without the space after the verb
subscribe_nospace(s, channel, res) ==
    send_raw(s, chain_and_complete_message(channel, <<"s", "u", "b", "s", "c", "r", "i", "b", "e">>), res)

\* Sender::subscribe
subscribe(s, channel, res) ==
    send_raw(s, chain_and_complete_message(channel, <<"s", "u", "b", "s", "c", "r", "i", "b", "e", " ">>), res)

\* Sender::unsubscribe
unsubscribe(s, channel, res) ==
    send_raw(s, chain_and_complete_message(channel, <<"u", "n", "s", "u", "b", "s", "c", "r", "i", "b", "e", " ">>), res)

---------------------------------------------------------------------------
\* ApiHandler.

\* the number of entries taken as the next handle
probe_len(r, num) == Cardinality(DOMAIN r)

RECURSIVE probe(_, _)
\* while self.retrying.contains_key(&num) { num += 1 }
probe(r, num) == IF num \in DOMAIN r THEN probe(r, num + 1) ELSE num

insert(r, k, v) == [h \in DOMAIN r \cup {k} |-> IF h = k THEN v ELSE r[h]]

remove(r, k) == [h \in DOMAIN r \ {k} |-> r[h]]

\* mark_retry always issuing handle 0
mark_retry_unprobed(s, failed, retry_in, armRes) ==
    LET s1 == [s EXCEPT !.retrying = insert(@, 0, failed)]
    IN ws_timeout(s1, millis(retry_in), 0, armRes)

mark_retry(s, failed, retry_in, armRes) ==
    LET num == probe(s.retrying, 0)
        s1 == [s EXCEPT !.retrying = insert(@, num, failed)]
    IN ws_timeout(s1, millis(retry_in), num, armRes)

\* try_or_retry_auth reading the token without clearing the slot
try_or_retry_auth_get(s, sendRes, armRes) ==
    IF s.token = None
    THEN LET s1 == Handler_on_error(s, Unauthorized)
             r == mark_retry(s1, Login, from_secs(LoginRetrySecs), armRes)
         IN IF r.ret # Ok THEN r ELSE Result(r.s, Ok)
    ELSE authenticate(s, s.token[1], sendRes)

\* try_or_retry_auth putting the token back once the frame is handed over
try_or_retry_auth_restore(s, sendRes, armRes) ==
    LET t == take_token(s) IN
    IF t.val = None
    THEN LET s1 == Handler_on_error(t.s, Unauthorized)
             r == mark_retry(s1, Login, from_secs(LoginRetrySecs), armRes)
         IN IF r.ret # Ok THEN r ELSE Result(r.s, Ok)
    ELSE LET r == authenticate(t.s, t.val[1], sendRes)
         IN Result([r.s EXCEPT !.token = t.val], r.ret)

\* try_or_retry_auth dropping the pending retries once a token is sent
try_or_retry_auth_cancelling(s, sendRes, armRes) ==
    LET t == take_token(s) IN
    IF t.val = None
    THEN LET s1 == Handler_on_error(t.s, Unauthorized)
             r == mark_retry(s1, Login, from_secs(LoginRetrySecs), armRes)
         IN IF r.ret # Ok THEN r ELSE Result(r.s, Ok)
    ELSE authenticate([t.s EXCEPT !.retrying = [h \in {} |-> Login]],
                      t.val[1], sendRes)

\* try_or_retry_auth giving the token back to the storage when the transport
\* refuses the auth frame
try_or_retry_auth_putback(s, sendRes, armRes) ==
    LET t == take_token(s) IN
    IF t.val = None
    THEN LET s1 == Handler_on_error(t.s, Unauthorized)
             r == mark_retry(s1, Login, from_secs(LoginRetrySecs), armRes)
         IN IF r.ret # Ok THEN r ELSE Result(r.s, Ok)
    ELSE LET r == authenticate(t.s, t.val[1], sendRes)
         IN IF r.ret # Ok THEN Result([r.s EXCEPT !.token = t.val], r.ret)
                          ELSE r

\* try_or_retry_auth scheduling a retry also after the auth frame was accepted
try_or_retry_auth_rearm(s, sendRes, armRes) ==
    LET t == take_token(s) IN
    IF t.val = None
    THEN LET s1 == Handler_on_error(t.s, Unauthorized)
             r == mark_retry(s1, Login, from_secs(LoginRetrySecs), armRes)
         IN IF r.ret # Ok THEN r ELSE Result(r.s, Ok)
    ELSE LET a == authenticate(t.s, t.val[1], sendRes) IN
         IF a.ret # Ok THEN a
         ELSE LET r == mark_retry(a.s, Login, from_secs(LoginRetrySecs), Ok)
              IN Result(r.s, Ok)

try_or_retry_auth(s, sendRes, armRes) ==
    LET t == take_token(s) IN
    IF t.val = None
    THEN LET s1 == Handler_on_error(t.s, Unauthorized)
             r == mark_retry(s1, Login, from_secs(LoginRetrySecs), armRes)
         IN IF r.ret # Ok THEN r ELSE Result(r.s, Ok)
    ELSE authenticate(t.s, t.val[1], sendRes)

\* retry_failstate with no arm for Login
retry_failstate_noop(s, state, sendRes, armRes) == Result(s, Ok)

retry_failstate(s, state, sendRes, armRes) ==
    CASE state = Login -> try_or_retry_auth(s, sendRes, armRes)

\* self.sender.sender().send("[]")
HeartbeatReply == <<"[", "]">>

\* on_error swallowing the transport's error
ApiHandler_on_error_dropped(s, err) == s

ApiHandler_on_error(s, err) == Handler_on_error(s, from_ws_error(err))

\* on_text discarding the error of the Open arm
on_text_open_unreported(s, text, sendRes, armRes, user) ==
    LET p == parse(text) IN
    IF p.ok
    THEN LET v == p.val
             own == CASE v.kind = "Open" ->
                          Result(try_or_retry_auth(s, sendRes, armRes).s, Ok)
                      [] v.kind = "Heartbeat" -> ws_send(s, HeartbeatReply, sendRes)
                      [] OTHER -> Result(s, Ok)
         IN IF own.ret # Ok THEN own
            ELSE LET c == Handler_on_communication(own.s, v, user) IN
                 IF c.ret # Ok THEN c ELSE Result(c.s, Ok)
    ELSE Result(Handler_on_error(s, from_parse_error(p.err)), Ok)

\* on_text dropping the pending retries when the server sends a Close frame
on_text_close_resets(s, text, sendRes, armRes, user) ==
    LET p == parse(text) IN
    IF p.ok
    THEN LET v == p.val
             own == CASE v.kind = "Open" ->
                          LET r == try_or_retry_auth(s, sendRes, armRes) IN
                          IF r.ret = Ok THEN r
                          ELSE Result(Handler_on_error(r.s, from_ws_error(r.ret)), Ok)
                      [] v.kind = "Heartbeat" -> ws_send(s, HeartbeatReply, sendRes)
                      [] v.kind = "Close" ->
                          Result([s EXCEPT !.retrying = [h \in {} |-> Login]], Ok)
                      [] OTHER -> Result(s, Ok)
         IN IF own.ret # Ok THEN own
            ELSE LET c == Handler_on_communication(own.s, v, user) IN
                 IF c.ret # Ok THEN c ELSE Result(c.s, Ok)
    ELSE Result(Handler_on_error(s, from_parse_error(p.err)), Ok)

\* on_text forwarding the Open frame before it authenticates
on_text_forward_first(s, text, sendRes, armRes, user) ==
    LET p == parse(text) IN
    IF p.ok
    THEN LET v == p.val IN
         IF v.kind = "Open"
         THEN LET c == Handler_on_communication(s, v, user)
                  r == try_or_retry_auth(c.s, sendRes, armRes)
              IN IF c.ret # Ok THEN c
                 ELSE IF r.ret = Ok THEN r
                 ELSE Result(Handler_on_error(r.s, from_ws_error(r.ret)), Ok)
         ELSE LET own == CASE v.kind = "Heartbeat" ->
                                  ws_send(s, HeartbeatReply, sendRes)
                              [] OTHER -> Result(s, Ok)
              IN IF own.ret # Ok THEN own
                 ELSE LET c == Handler_on_communication(own.s, v, user) IN
                      IF c.ret # Ok THEN c ELSE Result(c.s, Ok)
    ELSE Result(Handler_on_error(s, from_parse_error(p.err)), Ok)

on_text(s, text, sendRes, armRes, user) ==
    LET p == parse(text) IN
    IF p.ok
    THEN LET v == p.val
             own == CASE v.kind = "Open" ->
                          LET r == try_or_retry_auth(s, sendRes, armRes) IN
                          IF r.ret = Ok THEN r
                          ELSE Result(Handler_on_error(r.s, from_ws_error(r.ret)), Ok)
                      [] v.kind = "Heartbeat" -> ws_send(s, HeartbeatReply, sendRes)
                      [] OTHER -> Result(s, Ok)
         IN IF own.ret # Ok THEN own
            ELSE LET c == Handler_on_communication(own.s, v, user) IN
                 IF c.ret # Ok THEN c ELSE Result(c.s, Ok)
    ELSE Result(Handler_on_error(s, from_parse_error(p.err)), Ok)

\* on_message returning the parse error to the transport instead of reporting it
ApiHandler_on_message_strict(s, msg, sendRes, armRes, user) ==
    CASE msg.type = "Text" /\ parse(msg.text).ok ->
             on_text(s, msg.text, sendRes, armRes, user)
      [] msg.type = "Text" /\ ~parse(msg.text).ok -> Result(s, "ParseFailed")
      [] msg.type = "Binary" -> Result(s, Ok)

\* on_message reporting a binary message to the user's on_error
ApiHandler_on_message_binary_reported(s, msg, sendRes, armRes, user) ==
    CASE msg.type = "Text" -> on_text(s, msg.text, sendRes, armRes, user)
      [] msg.type = "Binary" ->
             Result(Handler_on_error(s, from_parse_error(msg.data)), Ok)

ApiHandler_on_message(s, msg, sendRes, armRes, user) ==
    CASE msg.type = "Text" -> on_text(s, msg.text, sendRes, armRes, user)
      [] msg.type = "Binary" -> Result(s, Ok)

\* on_timeout looking the entry up without removing it
ApiHandler_on_timeout_keep(s, tok, sendRes, armRes) ==
    IF tok \in DOMAIN s.retrying
    THEN LET r == retry_failstate(s, s.retrying[tok], sendRes, armRes)
         IN IF r.ret # Ok THEN r ELSE Result(r.s, Ok)
    ELSE Result(s, Ok)

\* on_timeout retrying the login for a handle it does not know
ApiHandler_on_timeout_unknown(s, tok, sendRes, armRes) ==
    LET r == retry_failstate([s EXCEPT !.retrying = remove(@, tok)],
                             Login, sendRes, armRes)
    IN IF r.ret # Ok THEN r ELSE Result(r.s, Ok)

\* on_timeout removing the entry only after the retry has run
ApiHandler_on_timeout_late(s, tok, sendRes, armRes) ==
    IF tok \in DOMAIN s.retrying
    THEN LET r == retry_failstate(s, s.retrying[tok], sendRes, armRes)
             after == [r.s EXCEPT !.retrying = remove(@, tok)]
         IN IF r.ret # Ok THEN Result(after, r.ret) ELSE Result(after, Ok)
    ELSE Result(s, Ok)

ApiHandler_on_timeout(s, tok, sendRes, armRes) ==
    IF tok \in DOMAIN s.retrying
    THEN LET r == retry_failstate([s EXCEPT !.retrying = remove(@, tok)],
                                  s.retrying[tok], sendRes, armRes)
         IN IF r.ret # Ok THEN r ELSE Result(r.s, Ok)
    ELSE Result(s, Ok)

---------------------------------------------------------------------------
\* The state machine: one step per callback of the transport, per set of the
\* HTTP layer and per timer armed by user code through its Sender clone.

NoRetries == [h \in {} |-> Login]

Init ==
    /\ token \in {None} \cup {Some(t) : t \in Tokens}
    /\ retrying = NoRetries
    /\ timers = EmptyBag
    /\ conn = "open"
    /\ opens = 0
    /\ auths = 0
    /\ foreign = 0
    /\ peer = [retrying |-> NoRetries, timers |-> EmptyBag, opens |-> 0]
    /\ uses = 0
    /\ handed = 0
    /\ http = [stage |-> "idle", n |-> 0]
    /\ ev = [cb |-> "connect"]
    /\ pre = [token |-> token, retrying |-> NoRetries, timers |-> EmptyBag]
    /\ ws = <<>>
    /\ calls = <<>>
    /\ ret = Ok

IsAuthFrame(data) == \E t \in Tokens : data = to_json_tuple1(AuthPrefix \o t)

\* the auth frames among the transport calls w that the transport accepted
AuthsIn(w) ==
    Cardinality({i \in DOMAIN w : w[i].op = "send" /\ w[i].res = Ok
                                    /\ IsAuthFrame(w[i].data)})

\* the auth frames among the transport calls w, accepted or not
AuthSendsIn(w) ==
    Cardinality({i \in DOMAIN w : w[i].op = "send" /\ IsAuthFrame(w[i].data)})

Snapshot == [token |-> token, retrying |-> retrying, timers |-> timers]

\* the session and the callback's result become the next state
Commit(result, event) ==
    /\ ev' = event
    /\ \E r \in {result} :
          /\ pre' = Snapshot
          /\ token' = r.s.token
          /\ retrying' = r.s.retrying
          /\ timers' = r.s.timers
          /\ ws' = r.s.ws
          /\ calls' = r.s.calls
          /\ ret' = r.ret
          /\ auths' = auths + AuthsIn(r.s.ws)
          /\ uses' = uses + AuthSendsIn(r.s.ws)
          /\ handed' = handed + AuthSendsIn(r.s.ws)
    /\ UNCHANGED <<peer, http>>

KindOf(msg) ==
    IF msg.type = "Text" /\ parse(msg.text).ok THEN parse(msg.text).val.kind
    ELSE "none"

\* how many times the default on_communication may ask the user's on_message
Asks(msg) ==
    CASE KindOf(msg) = "Message" -> 1
      [] KindOf(msg) = "Messages" -> Len(parse(msg.text).val.msgs)
      [] OTHER -> 0

\* The answers of the transport and of the user's on_message are drawn only
\* where the handler asks for one: a send when a token is stored or a heartbeat
\* is answered, a timer when no token is stored.
SendAnswers(asks) == IF asks THEN SendResults ELSE {Ok}
ArmAnswers(asks) == IF asks THEN ArmResults ELSE {Ok}

\* ws::Handler::on_message
OnMessage ==
    \E msg \in InboundMessages :
      LET k == KindOf(msg) IN
      \E sendRes \in SendAnswers(k = "Heartbeat" \/ (k = "Open" /\ token # None)) :
      \E armRes \in ArmAnswers(k = "Open" /\ token = None) :
      \E user \in UserBehaviours(Asks(msg)) :
        /\ conn = "open"
        /\ k = "Open" => opens < MaxOpens
        /\ Commit(ApiHandler_on_message(Sess, msg, sendRes, armRes, user),
                  [cb |-> "on_message", msg |-> msg])
        /\ opens' = IF k = "Open" THEN opens + 1 ELSE opens
        /\ UNCHANGED <<conn, foreign>>

\* Every key the mapping can hold, and one it never holds.
Handles == 0..MaxOpens

\* ws::Handler::on_timeout when a timer armed by the session fires
OnTimeout(tok) ==
    \E tm \in BagToSet(timers) :
      \E sendRes \in SendAnswers(tok \in DOMAIN retrying /\ token # None) :
      \E armRes \in ArmAnswers(tok \in DOMAIN retrying /\ token = None) :
        /\ conn = "open"
        /\ tm.tok = tok
        /\ Commit(ApiHandler_on_timeout(
                      [Sess EXCEPT !.timers = @ (-) SetToBag({tm})],
                      tok, sendRes, armRes),
                  [cb |-> "on_timeout", tok |-> tok, by |-> "session"])
        /\ UNCHANGED <<conn, opens, foreign>>

OnTimeoutAny == \E tok \in Handles : OnTimeout(tok)

\* ws::Handler::on_timeout when a timer fires that user code armed through
\* Sender::sender(), with any tag
OnForeignTimeout ==
    \E tok \in Handles :
      \E sendRes \in SendAnswers(tok \in DOMAIN retrying /\ token # None) :
      \E armRes \in ArmAnswers(tok \in DOMAIN retrying /\ token = None) :
        /\ conn = "open"
        /\ foreign < MaxForeign
        /\ foreign' = foreign + 1
        /\ Commit(ApiHandler_on_timeout(Sess, tok, sendRes, armRes),
                  [cb |-> "on_timeout", tok |-> tok, by |-> "user"])
        /\ UNCHANGED <<conn, opens>>

\* ws::Handler::on_error
OnError ==
    \E e \in WsErrors :
        /\ conn = "open"
        /\ Commit(Result(ApiHandler_on_error(Sess, e), Ok),
                  [cb |-> "on_error", err |-> e])
        /\ UNCHANGED <<conn, opens, foreign>>

\* ws::Handler::on_close, which ApiHandler leaves to the transport's default
OnClose ==
    /\ conn = "open"
    /\ conn' = "closed"
    /\ Commit(Result(Sess, Ok), [cb |-> "on_close"])
    /\ UNCHANGED <<opens, foreign>>

\* The HTTP layer stores a token.
SetToken ==
    \E t \in Tokens :
        /\ token' = set_token(token, t)
        /\ ev' = [cb |-> "set", token |-> t]
        /\ pre' = Snapshot
        /\ ws' = <<>>
        /\ calls' = <<>>
        /\ ret' = Ok
        /\ uses' = 0
        /\ UNCHANGED <<retrying, timers, conn, opens, auths, foreign, peer, handed,
                     http>>

Next ==
    \/ OnMessage
    \/ OnTimeoutAny
    \/ OnError
    \/ OnClose
    \/ SetToken
    \/ OnForeignTimeout

Spec == Init /\ [][Next]_vars

\* While the connection is open and a timer of the session is armed, a timer
\* of the session fires.
TimersFire == WF_vars(OnTimeoutAny)

LiveSpec == Init /\ [][Next]_vars /\ TimersFire

\* While the connection is open, every armed timer of the session fires.
EachTimerFires == \A tok \in Handles : WF_vars(OnTimeout(tok))

FairSpec == Init /\ [][Next]_vars /\ EachTimerFires

---------------------------------------------------------------------------
\* Several sessions over one storage.  connect gives every ApiHandler a clone
\* of the storage (token: token.clone()), so sessions built from one shared
\* storage take from the same slot.  A callback reaches the storage through
\* the one take_token call of try_or_retry_auth, so every interleaving of the
\* sessions' storage operations is an interleaving of whole callbacks.

\* the other session as a value, over the shared slot
PeerSess == [token |-> token, retrying |-> peer.retrying, timers |-> peer.timers,
             ws |-> <<>>, calls |-> <<>>]

\* the other session and its callback's result become the next state
PeerCommit(result, event, nopens) ==
    /\ ev' = event
    /\ \E r \in {result} :
          /\ pre' = [token |-> token, retrying |-> peer.retrying,
                     timers |-> peer.timers]
          /\ token' = r.s.token
          /\ peer' = [retrying |-> r.s.retrying, timers |-> r.s.timers,
                      opens |-> nopens]
          /\ ws' = r.s.ws
          /\ calls' = r.s.calls
          /\ ret' = r.ret
          /\ auths' = auths + AuthsIn(r.s.ws)
          /\ uses' = uses + AuthSendsIn(r.s.ws)
    /\ UNCHANGED <<retrying, timers, conn, opens, foreign, handed, http>>

\* ws::Handler::on_message of the other session, for its Open frame
PeerOnOpen ==
    \E sendRes \in SendAnswers(token # None) :
    \E armRes \in ArmAnswers(token = None) :
        /\ peer.opens < MaxPeerOpens
        /\ PeerCommit(ApiHandler_on_message(PeerSess, Text(Frame("o", Empty)),
                                            sendRes, armRes, <<>>),
                      [cb |-> "peer_on_message", msg |-> Text(Frame("o", Empty))],
                      peer.opens + 1)

\* ws::Handler::on_timeout of the other session
PeerOnTimeout ==
    \E tm \in BagToSet(peer.timers) :
      \E sendRes \in SendAnswers(tm.tok \in DOMAIN peer.retrying /\ token # None) :
      \E armRes \in ArmAnswers(tm.tok \in DOMAIN peer.retrying /\ token = None) :
        PeerCommit(ApiHandler_on_timeout(
                       [PeerSess EXCEPT !.timers = @ (-) SetToBag({tm})],
                       tm.tok, sendRes, armRes),
                   [cb |-> "peer_on_timeout", tok |-> tm.tok],
                   peer.opens)

SharedNext ==
    \/ Next
    \/ PeerOnOpen
    \/ PeerOnTimeout

SharedSpec == Init /\ [][SharedNext]_vars

---------------------------------------------------------------------------
\* User code on Channel and on its clone of the Sender.  A call reads nothing
\* an earlier call wrote, so each behaviour makes one call, on a Sender just
\* built.

Fresh == ev.cb = "connect"

CmdAlphabet == {"a", "\"", "\\", "\n"}

\* the commands user code passes to send_raw
Commands == UNION {[1..n -> CmdAlphabet] : n \in 0..MaxCmdLen}

\* Channel::to_string
CallToString ==
    /\ Fresh
    /\ \E ch \in Channels :
          /\ ev' = [cb |-> "to_string", channel |-> ch, topic |-> to_string(ch)]
          /\ pre' = Snapshot
          /\ ws' = <<>>
          /\ calls' = <<>>
          /\ ret' = Ok
    /\ UNCHANGED <<token, retrying, timers, conn, opens, auths, foreign, peer, uses,
                   handed, http>>

\* Sender::subscribe
CallSubscribe ==
    /\ Fresh
    /\ \E ch \in Channels, res \in SendResults :
          Commit(subscribe(Sess, ch, res), [cb |-> "subscribe", channel |-> ch])
    /\ UNCHANGED <<conn, opens, foreign>>

\* Sender::unsubscribe
CallUnsubscribe ==
    /\ Fresh
    /\ \E ch \in Channels, res \in SendResults :
          Commit(unsubscribe(Sess, ch, res), [cb |-> "unsubscribe", channel |-> ch])
    /\ UNCHANGED <<conn, opens, foreign>>

\* Sender::send_raw
CallSendRaw ==
    /\ Fresh
    /\ \E cmd \in Commands, res \in SendResults :
          Commit(send_raw(Sess, cmd, res), [cb |-> "send_raw", command |-> cmd])
    /\ UNCHANGED <<conn, opens, foreign>>

SenderNext ==
    \/ CallToString
    \/ CallSubscribe
    \/ CallUnsubscribe
    \/ CallSendRaw

\* no call on the Sender or on a Channel reads the storage
SenderInit == Init /\ token = None

SenderSpec == SenderInit /\ [][SenderNext]_vars

---------------------------------------------------------------------------
\* What the claims read from the last step.

IsFrame(k) == ev.cb = "on_message" /\ KindOf(ev.msg) = k

IsTimeout == ev.cb = "on_timeout"

OnErrorCalls == SelectSeq(calls, LAMBDA c : c.fn = "on_error")

ErrorsReported == [i \in DOMAIN OnErrorCalls |-> OnErrorCalls[i].err]

Sends == SelectSeq(ws, LAMBDA c : c.op = "send")

TimerRequests == SelectSeq(ws, LAMBDA c : c.op = "timeout")

\* the frame ["auth <t>"] of each token of the model, written out
AuthFrameText(t) ==
    IF t = <<"t", "1">>
    THEN <<"[", "\"", "a", "u", "t", "h", " ", "t", "1", "\"", "]">>
    ELSE <<"[", "\"", "a", "u", "t", "h", " ", "k", "\\", "\"", "\"", "]">>

NewHandles == DOMAIN retrying \ DOMAIN pre.retrying

OneTimer(h, ms) == SetToBag({[tok |-> h, ms |-> ms]})

---------------------------------------------------------------------------
\* C1 as claimed: an Open frame with a token t stored takes t, hands exactly
\* one frame ["auth t"] to the transport, reports nothing to on_error and adds
\* no retry entry.
C1_Claimed ==
    (IsFrame("Open") /\ pre.token # None) =>
        /\ token = None
        /\ ws = <<[op |-> "send", data |-> AuthFrameText(pre.token[1]), res |-> Ok]>>
        /\ OnErrorCalls = <<>>
        /\ retrying = pre.retrying

\* C1, amended: an Open frame with a token t stored takes t (the storage is
\* empty afterwards), passes exactly one frame ["auth t"] to the transport's
\* send, arms no timer and adds no retry entry; nothing is reported to on_error
\* when the transport accepts the frame, and when the send fails that send
\* error, and nothing else, is reported to on_error once.
C1_AuthOnOpen ==
    (IsFrame("Open") /\ pre.token # None) =>
        /\ token = None
        /\ Len(ws) = 1
        /\ ws[1].op = "send"
        /\ ws[1].data = AuthFrameText(pre.token[1])
        /\ retrying = pre.retrying
        /\ timers = pre.timers
        /\ ErrorsReported =
               IF ws[1].res = Ok THEN <<>>
               ELSE <<[type |-> "Ws", inner |-> ws[1].res]>>

C1_Witness ==
    /\ IsFrame("Open")
    /\ pre.token = <<(<<"k", "\"">>)>>
    /\ token = None
    /\ Len(ws) = 1
    /\ ws[1].res = Ok

C1_WitnessSendFails ==
    /\ IsFrame("Open")
    /\ pre.token # None
    /\ Len(ws) = 1
    /\ ws[1].res # Ok

\* C2 as claimed: an Open frame with the storage empty reports Unauthorized
\* exactly once, sends no auth frame, inserts exactly one retry entry tagged
\* Login and arms one timer tagged with that entry's handle for 15000 ms.
C2_Claimed ==
    (IsFrame("Open") /\ pre.token = None) =>
        /\ Len(SelectSeq(ErrorsReported, LAMBDA e : e = [type |-> "Http", inner |-> "Unauthorized"])) = 1
        /\ Sends = <<>>
        /\ \E h \in DOMAIN retrying :
              /\ NewHandles = {h}
              /\ retrying[h] = "Login"
              /\ timers = pre.timers (+) OneTimer(h, 15000)

\* C2, amended: an Open frame with the storage empty reports Unauthorized
\* exactly once, sends no frame, inserts exactly one retry entry tagged Login
\* (the others unchanged) and asks the transport exactly once for a timer tagged
\* with that entry's handle and a delay of 15000 ms; the timer is armed when the
\* transport accepts the request, and when it refuses, no timer is armed, the
\* entry stays in the mapping and the transport's error is reported to on_error
\* after Unauthorized.
C2_RetryOnOpen ==
    (IsFrame("Open") /\ pre.token = None) =>
        /\ token = None
        /\ Sends = <<>>
        /\ Len(ws) = 1
        /\ ws[1].op = "timeout"
        /\ ws[1].ms = 15000
        /\ NewHandles = {ws[1].tok}
        /\ retrying[ws[1].tok] = "Login"
        /\ \A h \in DOMAIN pre.retrying :
              h \in DOMAIN retrying /\ retrying[h] = pre.retrying[h]
        /\ IF ws[1].res = Ok
           THEN /\ timers = pre.timers (+) OneTimer(ws[1].tok, 15000)
                /\ ErrorsReported = <<[type |-> "Http", inner |-> "Unauthorized"]>>
           ELSE /\ timers = pre.timers
                /\ ErrorsReported = <<[type |-> "Http", inner |-> "Unauthorized"],
                                      [type |-> "Ws", inner |-> ws[1].res]>>

C2_Witness ==
    /\ IsFrame("Open")
    /\ pre.token = None
    /\ Len(ws) = 1
    /\ ws[1].res = Ok
    /\ BagIn([tok |-> ws[1].tok, ms |-> 15000], timers)

---------------------------------------------------------------------------
\* The timers left of those armed before the step, once the one that fired
\* (a timer of the session) is gone.
TimersLeft ==
    IF IsTimeout /\ ev.by = "session"
    THEN pre.timers (-) OneTimer(ev.tok, 15000)
    ELSE pre.timers

\* The keys of the mapping when mark_retry is called: in on_timeout the entry
\* that fired has been removed.
KeysAtSchedule ==
    IF IsTimeout THEN DOMAIN pre.retrying \ {ev.tok} ELSE DOMAIN pre.retrying

KnownFire == IsTimeout /\ ev.tok \in DOMAIN pre.retrying

UnauthorizedReports ==
    Len(SelectSeq(ErrorsReported,
                  LAMBDA e : e = [type |-> "Http", inner |-> "Unauthorized"]))

\* C4 as claimed: a timer firing for a pending handle with the storage still
\* empty removes the entry, reports Unauthorized exactly once and schedules
\* exactly one new Login retry with a 15 s timer, so that a retry is pending
\* after every such fire.
C4_Claimed ==
    (KnownFire /\ pre.token = None) =>
        /\ UnauthorizedReports = 1
        /\ \E h \in DOMAIN retrying :
              /\ h \notin KeysAtSchedule
              /\ DOMAIN retrying = KeysAtSchedule \cup {h}
              /\ retrying[h] = "Login"
              /\ timers = TimersLeft (+) OneTimer(h, 15000)

\* C4, amended: a timer firing for a pending handle with the storage still
\* empty removes the entry, reports Unauthorized exactly once, inserts exactly
\* one new Login entry and asks the transport exactly once for a timer of
\* 15000 ms tagged with the new handle, on every such fire; the mapping is
\* never empty afterwards.  The new timer is armed when the transport accepts
\* the request; when it refuses, the new entry has no timer and the callback
\* returns the transport's error.
C4_RetryOnFire ==
    (KnownFire /\ pre.token = None) =>
        /\ token = None
        /\ UnauthorizedReports = 1
        /\ Len(ErrorsReported) = 1
        /\ Len(ws) = 1
        /\ ws[1].op = "timeout"
        /\ ws[1].ms = 15000
        /\ ws[1].tok \notin KeysAtSchedule
        /\ DOMAIN retrying = KeysAtSchedule \cup {ws[1].tok}
        /\ retrying[ws[1].tok] = "Login"
        /\ DOMAIN retrying # {}
        /\ ret = ws[1].res
        /\ timers = IF ws[1].res = Ok
                    THEN TimersLeft (+) OneTimer(ws[1].tok, 15000)
                    ELSE TimersLeft

\* the timer of the only pending retry fires with no token stored: the retry
\* is scheduled again, under the handle the fire freed
C4_Witness ==
    /\ KnownFire
    /\ pre.token = None
    /\ ev.by = "session"
    /\ ws[1].res = Ok
    /\ opens = 1
    /\ foreign = 0
    /\ BagIn([tok |-> 0, ms |-> 15000], timers)
    /\ BagIn([tok |-> 0, ms |-> 15000], pre.timers)

\* C5: a timer event whose handle is not a key of the retry mapping is a no-op:
\* the callback returns success, the mapping and the storage are unchanged,
\* nothing is sent, no timer is armed and no callback of the user Handler runs.
C5_UnknownHandleNoOp ==
    (IsTimeout /\ ev.tok \notin DOMAIN pre.retrying) =>
        /\ ret = Ok
        /\ retrying = pre.retrying
        /\ token = pre.token
        /\ ws = <<>>
        /\ calls = <<>>
        /\ timers = TimersLeft

\* a timer of the session that fires after a timer of user code with the same
\* tag took its entry, and with a token stored
C5_Witness ==
    /\ IsTimeout
    /\ ev.tok \notin DOMAIN pre.retrying
    /\ ev.by = "session"
    /\ token # None
    /\ retrying # NoRetries

\* C6: every call of mark_retry issues the smallest non-negative integer that
\* is not a key of the mapping at the time of the call: the handle is not among
\* the pending ones, every smaller integer is pending, and the entries pending
\* before are left as they were.
C6_SmallestFreeHandle ==
    \A i \in DOMAIN TimerRequests :
        LET h == TimerRequests[i].tok IN
        /\ h \notin KeysAtSchedule
        /\ \A n \in 0..(h - 1) : n \in KeysAtSchedule
        /\ DOMAIN retrying = KeysAtSchedule \cup {h}
        /\ \A k \in KeysAtSchedule : retrying[k] = pre.retrying[k]

\* handle 0 fires while 1 is pending, and 0 is issued again
C6_Witness ==
    /\ KnownFire
    /\ ev.tok = 0
    /\ 1 \in DOMAIN pre.retrying
    /\ Len(TimerRequests) = 1
    /\ TimerRequests[1].tok = 0
    /\ DOMAIN retrying = {0, 1}

\* handle 1 is issued while 0 is pending
C6_WitnessSecond ==
    /\ IsFrame("Open")
    /\ Len(TimerRequests) = 1
    /\ TimerRequests[1].tok = 1
    /\ DOMAIN pre.retrying = {0}

---------------------------------------------------------------------------
\* C3.  A token t is set while a retry is pending.
SetWhilePending(t) ==
    /\ ev.cb = "set"
    /\ ev.token = t
    /\ retrying # NoRetries
    /\ conn = "open"

\* ... and the timer of one of the pending entries is armed.
SetWhileArmed(t) ==
    /\ SetWhilePending(t)
    /\ \E h \in DOMAIN retrying : BagIn([tok |-> h, ms |-> 15000], timers)

\* The session hands ["auth t"] to the transport; when a timer did it, its
\* entry is gone and no retry was scheduled.
AuthHanded(t) ==
    /\ ws = <<[op |-> "send", data |-> AuthFrameText(t), res |-> Ok]>>
    /\ IsTimeout => ev.tok \notin DOMAIN retrying /\ retrying = remove(pre.retrying, ev.tok)

\* What the claim assumes away: a send fails, the connection is closed (no
\* timer fires any more), or another set replaces t before it is taken.
C3_Excused(t) ==
    \/ \E i \in DOMAIN ws : ws[i].op = "send" /\ ws[i].res # Ok
    \/ conn = "closed"
    \/ ev.cb = "set" /\ ev.token # t

---------------------------------------------------------------------------
\* C7 as claimed: for every Heartbeat frame the session passes exactly one
\* frame, the two characters [], to the transport and the Heartbeat is
\* forwarded to on_communication.
C7_Claimed ==
    IsFrame("Heartbeat") =>
        /\ Len(ws) = 1
        /\ ws[1].op = "send"
        /\ ws[1].data = <<"[", "]">>
        /\ calls = <<[fn |-> "on_communication", result |-> [kind |-> "Heartbeat"]]>>

---------------------------------------------------------------------------
OnMessageCalls == SelectSeq(calls, LAMBDA c : c.fn = "on_message")

\* the payloads of the a frame of the last step, in the order of the frame
BatchOfFrame == [i \in DOMAIN ev.msg.text.body.v |-> ev.msg.text.body.v[i].v]

\* C8: with the default on_communication, a Messages batch has on_message
\* called on its messages in batch order, once each, up to and including the
\* first call that returns an error; that error is what the message callback
\* returns.  A single Message has on_message called exactly once.
C8_BatchDispatch ==
    /\ IsFrame("Messages") =>
          LET n == Len(BatchOfFrame)
              j == Len(OnMessageCalls)
          IN /\ j <= n
             /\ calls = <<[fn |-> "on_communication",
                           result |-> [kind |-> "Messages", msgs |-> BatchOfFrame]]>>
                            \o OnMessageCalls
             /\ \A i \in 1..j : OnMessageCalls[i].msg = BatchOfFrame[i]
             /\ \A i \in 1..(j - 1) : OnMessageCalls[i].ret = Ok
             /\ j < n => j >= 1 /\ OnMessageCalls[j].ret # Ok
             /\ ret = IF j >= 1 THEN OnMessageCalls[j].ret ELSE Ok
    /\ IsFrame("Message") =>
          /\ Len(OnMessageCalls) = 1
          /\ OnMessageCalls[1].msg = ev.msg.text.body.v
          /\ ret = OnMessageCalls[1].ret

\* the first on_message of a batch of two fails and the second is not called
C8_Witness ==
    /\ IsFrame("Messages")
    /\ Len(BatchOfFrame) = 2
    /\ Len(OnMessageCalls) = 1
    /\ ret = "E2"

---------------------------------------------------------------------------
\* C9 as claimed: when the transport reports the connection closed, the
\* session calls the user Handler's on_disconnect and sends nothing.
C9_Claimed ==
    ev.cb = "on_close" =>
        /\ \E i \in DOMAIN calls : calls[i].fn = "on_disconnect"
        /\ ws = <<>>

---------------------------------------------------------------------------
\* C10: a text frame that fails to parse has on_error called exactly once, with
\* the parse error, and nothing else: no on_communication, no on_message,
\* nothing sent, no timer armed, the mapping and the storage unchanged, success
\* returned and the connection left open.
C10_ParseErrorReported ==
    (ev.cb = "on_message" /\ ev.msg.type = "Text" /\ ev.msg.text \in Malformed) =>
        /\ calls = <<[fn |-> "on_error",
                      err |-> [type |-> "Parse", inner |-> ev.msg.text]]>>
        /\ ws = <<>>
        /\ retrying = pre.retrying
        /\ token = pre.token
        /\ timers = pre.timers
        /\ ret = Ok
        /\ conn = "open"

\* a malformed frame while a retry is pending and a token is stored
C10_Witness ==
    /\ ev.cb = "on_message"
    /\ ev.msg.type = "Text"
    /\ ev.msg.text \in Malformed
    /\ Len(calls) = 1
    /\ retrying # NoRetries
    /\ token # None

---------------------------------------------------------------------------
\* C11: an error of the transport is forwarded to the user Handler's on_error
\* exactly once, as the only call on the user Handler, and changes nothing
\* else: the mapping, the storage and the timers are as before and nothing is
\* asked of the transport.
C11_WsErrorForwarded ==
    ev.cb = "on_error" =>
        /\ calls = <<[fn |-> "on_error", err |-> [type |-> "Ws", inner |-> ev.err]]>>
        /\ ws = <<>>
        /\ retrying = pre.retrying
        /\ token = pre.token
        /\ timers = pre.timers

\* a transport error while a retry is pending, its timer armed, and a token
\* is stored
C11_Witness ==
    /\ ev.cb = "on_error"
    /\ Len(calls) = 1
    /\ retrying # NoRetries
    /\ timers # EmptyBag
    /\ token # None

---------------------------------------------------------------------------
\* C12: a binary message has no effect on the session: no callback of the user
\* Handler runs, nothing is asked of the transport, the mapping, the storage
\* and the timers are unchanged and the message callback returns success.
C12_BinaryIgnored ==
    (ev.cb = "on_message" /\ ev.msg.type = "Binary") =>
        /\ calls = <<>>
        /\ ws = <<>>
        /\ retrying = pre.retrying
        /\ token = pre.token
        /\ timers = pre.timers
        /\ ret = Ok

\* a binary message while a retry is pending and a token is stored
C12_Witness ==
    /\ ev.cb = "on_message"
    /\ ev.msg.type = "Binary"
    /\ retrying # NoRetries
    /\ token # None
    /\ ret = Ok

---------------------------------------------------------------------------
AuthSends == SelectSeq(ws, LAMBDA c : c.op = "send" /\ IsAuthFrame(c.data))

\* C13: with two sessions and the HTTP layer's set over one storage, under
\* every interleaving of their Open frames, timer fires and sets, the value
\* placed by one set is carried by at most one auth command in total: an auth
\* command carries the value the slot held when the callback began, the slot
\* is empty after it, and no second command carries it before the next set.
C13_NoDoubleUse ==
    /\ uses <= 1
    /\ \A i \in DOMAIN AuthSends :
          /\ pre.token # None
          /\ AuthSends[i].data = AuthFrameText(pre.token[1])
          /\ token = None

\* the other session takes the token while a retry of this session is
\* pending with its timer armed
C13_Witness ==
    /\ ev.cb \in {"peer_on_message", "peer_on_timeout"}
    /\ Len(AuthSends) = 1
    /\ uses = 1
    /\ retrying # NoRetries
    /\ timers # EmptyBag

\* this session's retry fires after the other session took the token, and
\* finds the slot empty
C13_WitnessLoser ==
    /\ KnownFire
    /\ ev.by = "session"
    /\ pre.token = None
    /\ uses = 1
    /\ peer.opens = 1
    /\ AuthSends = <<>>

---------------------------------------------------------------------------
\* The failures of the last callback, as the errors the user Handler would be
\* given: no token at an authentication attempt, a send or a timer request the
\* transport refused, a text frame that did not parse.
Failures ==
    {Unauthorized : x \in {1} \cap
        (IF (IsFrame("Open") \/ KnownFire) /\ pre.token = None THEN {1} ELSE {})}
    \cup {from_ws_error(ws[i].res) : i \in {j \in DOMAIN ws : ws[j].res # Ok}}
    \cup {from_parse_error(ev.msg.text) : x \in {1} \cap
        (IF ev.cb = "on_message" /\ ev.msg.type = "Text" /\ ~parse(ev.msg.text).ok
         THEN {1} ELSE {})}

Reported(e) == \E i \in DOMAIN ErrorsReported : ErrorsReported[i] = e

\* a retry timer was armed during the last callback
RetryScheduled == \E i \in DOMAIN TimerRequests : TimerRequests[i].res = Ok

\* the callback returned the transport's error e to the transport
Returned(e) == e.type = "Ws" /\ ret = e.inner

C14_WitnessReturned ==
    /\ KnownFire
    /\ pre.token # None
    /\ Failures = {from_ws_error(WsErrSend)}
    /\ ret = WsErrSend
    /\ calls = <<>>

---------------------------------------------------------------------------
\* JSON as the receiver of a frame reads it.

RECURSIVE json_string_body(_)
\* whether b is the body of a JSON string: no bare quote, no bare line feed,
\* and after a backslash a character JSON allows there
json_string_body(b) ==
    IF b = <<>> THEN TRUE
    ELSE IF Head(b) = "\\"
         THEN Len(b) >= 2 /\ b[2] \in {"\"", "\\", "n"}
                  /\ json_string_body(Tail(Tail(b)))
         ELSE Head(b) \notin {"\"", "\n"} /\ json_string_body(Tail(b))

RECURSIVE json_unescape(_)
\* the characters the body b of a JSON string stands for
json_unescape(b) ==
    IF b = <<>> THEN <<>>
    ELSE IF Head(b) = "\\"
         THEN <<(IF b[2] = "n" THEN "\n" ELSE b[2])>> \o json_unescape(Tail(Tail(b)))
         ELSE <<Head(b)>> \o json_unescape(Tail(b))

\* the string of a frame that is a JSON array of exactly one string, or None
decode_array1(frame) ==
    IF /\ Len(frame) >= 4
       /\ frame[1] = "[" /\ frame[2] = "\""
       /\ frame[Len(frame) - 1] = "\"" /\ frame[Len(frame)] = "]"
       /\ json_string_body(SubSeq(frame, 3, Len(frame) - 2))
    THEN Some(json_unescape(SubSeq(frame, 3, Len(frame) - 2)))
    ELSE None

---------------------------------------------------------------------------
\* The templates of the claim: what precedes the first field, what stands
\* between the fields or after the only one, and the fields in order.

IsCall(f) == ev.cb = f

TemplateHead(ch) ==
    CASE ch.variant = "ServerMessages" ->
             <<"s", "e", "r", "v", "e", "r", "-", "m", "e", "s", "s", "a", "g", "e">>
      [] ch.variant \in {"MapRoomUpdates"} ->
             <<"r", "o", "o", "m", "M", "a", "p", "2", ":">>
      [] ch.variant \in {"RoomUpdates"} -> <<"r", "o", "o", "m", ":">>
      [] OTHER -> <<"u", "s", "e", "r", ":">>

TemplateTail(ch) ==
    CASE ch.variant = "UserCpu" -> <<"/", "c", "p", "u">>
      [] ch.variant = "UserMessages" ->
             <<"/", "n", "e", "w", "M", "e", "s", "s", "a", "g", "e">>
      [] ch.variant = "UserConversation" ->
             <<"/", "m", "e", "s", "s", "a", "g", "e", ":">>
      [] ch.variant = "UserCredits" -> <<"/", "m", "o", "n", "e", "y">>
      [] ch.variant = "UserMemoryPath" -> <<"/", "m", "e", "m", "o", "r", "y", "/">>
      [] ch.variant = "UserConsole" -> <<"/", "c", "o", "n", "s", "o", "l", "e">>
      [] ch.variant = "UserActiveBranch" ->
             <<"/", "s", "e", "t", "-", "a", "c", "t", "i", "v", "e", "-",
               "b", "r", "a", "n", "c", "h">>
      [] OTHER -> <<>>

FirstField(ch) ==
    CASE "user_id" \in DOMAIN ch -> ch.user_id
      [] "room_name" \in DOMAIN ch -> ch.room_name
      [] OTHER -> <<>>

SecondField(ch) ==
    CASE "target_user_id" \in DOMAIN ch -> ch.target_user_id
      [] "path" \in DOMAIN ch -> ch.path
      [] OTHER -> <<>>

Template(ch) == TemplateHead(ch) \o FirstField(ch) \o TemplateTail(ch) \o SecondField(ch)

\* C15: for every channel variant and every value of its fields, to_string
\* gives the variant's template: server-message; user:<id>/cpu;
\* user:<id>/newMessage; user:<id>/message:<target_id>; user:<id>/money;
\* user:<id>/memory/<path>; user:<id>/console; user:<id>/set-active-branch;
\* roomMap2:<room>; room:<room>.
C15_TopicTemplates ==
    IsCall("to_string") => ev.topic = Template(ev.channel)

\* a conversation channel whose two ids differ
C15_Witness ==
    /\ IsCall("to_string")
    /\ ev.channel.variant = "UserConversation"
    /\ ev.channel.user_id = <<"a">>
    /\ ev.channel.target_user_id = <<":", "a">>
    /\ Len(ev.topic) = 17

---------------------------------------------------------------------------
Verb(f) ==
    IF f = "subscribe"
    THEN <<"s", "u", "b", "s", "c", "r", "i", "b", "e">>
    ELSE <<"u", "n", "s", "u", "b", "s", "c", "r", "i", "b", "e">>

\* C16: subscribe(channel) passes exactly one frame to the transport, a JSON
\* array of exactly one string that reads subscribe, one space, and
\* the topic to_string gives for the channel; unsubscribe(channel) does the
\* same with unsubscribe.
C16_SubscribeFrames ==
    (IsCall("subscribe") \/ IsCall("unsubscribe")) =>
        /\ Len(ws) = 1
        /\ ws[1].op = "send"
        /\ decode_array1(ws[1].data) =
               Some(Verb(ev.cb) \o <<" ">> \o to_string(ev.channel))
        /\ ret = ws[1].res
        /\ calls = <<>>

\* an unsubscribe whose room name holds a quote, accepted by the transport
C16_Witness ==
    /\ IsCall("unsubscribe")
    /\ ev.channel = RoomUpdates(<<"a", "\"">>)
    /\ Len(ws) = 1
    /\ ws[1].res = Ok
    /\ Len(ws[1].data) = 24

---------------------------------------------------------------------------
IdFields(ch) == DOMAIN ch \ {"variant"}

\* C17 as claimed: two channels of one variant whose identifier fields differ
\* have different topics.
C17_Claimed ==
    IsCall("to_string") =>
        \A other \in Channels :
            (other.variant = ev.channel.variant /\ other # ev.channel)
                => to_string(other) # ev.topic

\* C17, amended: two channels of one variant that differ in exactly one
\* identifier field have different topics (so every variant with a single
\* field distinguishes its ids).
C17_OneFieldDistinct ==
    IsCall("to_string") =>
        \A f \in IdFields(ev.channel) : \A id \in Ids :
            id # ev.channel[f] =>
                to_string([ev.channel EXCEPT ![f] = id]) # ev.topic

\* a memory channel whose user id and path hold separators
C17_Witness ==
    /\ IsCall("to_string")
    /\ ev.channel = UserMemoryPath(<<"a", "/">>, <<":", "a">>)

---------------------------------------------------------------------------
\* C18: send_raw(command) passes exactly one frame to the transport, a JSON
\* array of exactly one string, and reading that array gives the command back
\* unchanged, also when it holds quotes, backslashes or line feeds.
C18_RawRoundTrip ==
    IsCall("send_raw") =>
        /\ Len(ws) = 1
        /\ ws[1].op = "send"
        /\ decode_array1(ws[1].data) = Some(ev.command)
        /\ ret = ws[1].res
        /\ calls = <<>>

\* a command of a quote, a backslash and a line feed
C18_Witness ==
    /\ IsCall("send_raw")
    /\ ev.command = <<"\"", "\\", "\n">>
    /\ ws[1].data = <<"[", "\"", "\\", "\"", "\\", "\\", "\\", "n", "\"", "]">>

---------------------------------------------------------------------------
\* an Open frame found a token and the transport accepted its auth frame,
\* while the retry h was pending with its timer armed
StaleRetry(h) ==
    /\ IsFrame("Open")
    /\ pre.token # None
    /\ Len(AuthSends) = 1
    /\ AuthSends[1].res = Ok
    /\ h \in DOMAIN pre.retrying
    /\ BagIn([tok |-> h, ms |-> 15000], timers)

\* the session's timer tagged h fires
Fire(h) == IsTimeout /\ ev.by = "session" /\ ev.tok = h

\* the callback attempted the login again: it took the stored token and passed
\* its auth frame to the transport, or found none, reported Unauthorized and
\* asked for a further retry timer
Reattempt ==
    \/ /\ pre.token # None
       /\ token = None
       /\ Len(AuthSends) = 1
       /\ AuthSends[1].data = AuthFrameText(pre.token[1])
    \/ /\ pre.token = None
       /\ Reported(Unauthorized)
       /\ Len(TimerRequests) = 1
       /\ TimerRequests[1].ms = 15000

\* C19 as claimed: once authentication succeeded through a later Open frame
\* while a retry is pending, the retry's timer still fires and the session
\* attempts the login again at that fire.
C19_Claimed ==
    \A h \in Handles :
        StaleRetry(h) ~> ((Fire(h) /\ KnownFire /\ Reattempt) \/ conn = "closed")

\* C19, amended: the retry's timer still fires (while the connection is
\* open), and at that fire the session attempts the login again, unless a
\* timer that user code armed with the same tag fired before and took the
\* entry: then the attempt was made at that earlier fire and the retry's own
\* timer finds no entry.
C19_NeverCancelled ==
    \A h \in Handles :
        StaleRetry(h) ~>
            \/ /\ Fire(h)
               /\ IF KnownFire THEN Reattempt ELSE foreign > 0
            \/ conn = "closed"

\* the timer of retry 0 fires after two Open frames and sends the token stored
\* by then, the second auth frame the transport accepted
C19_Witness ==
    /\ Fire(0)
    /\ KnownFire
    /\ Reattempt
    /\ pre.token # None
    /\ opens = 2
    /\ auths = 2
    /\ foreign = 0

---------------------------------------------------------------------------
\* the callbacks the transport runs on the session
SessionEvent == ev.cb \in {"on_message", "on_timeout", "on_error", "on_close"}

\* the callback ran the authenticate-or-retry action
AuthOrRetryRan == IsFrame("Open") \/ KnownFire

\* C20: the session only removes a token from the storage.  After a callback
\* of the session the storage holds what it held before or nothing; it goes
\* from holding a token to empty only in a callback that ran the
\* authenticate-or-retry action, which leaves it empty also when the transport
\* refused the auth frame; and it comes to hold a token, or another token,
\* only by a set from outside the session.
C20_OnlyRemoves ==
    /\ SessionEvent => token \in {pre.token, None}
    /\ (SessionEvent /\ pre.token # None /\ token = None) => AuthOrRetryRan
    /\ (AuthOrRetryRan /\ pre.token # None) =>
            /\ token = None
            /\ Len(AuthSends) = 1
            /\ AuthSends[1].data = AuthFrameText(pre.token[1])
    /\ (token # None /\ token # pre.token) =>
            /\ ev.cb = "set"
            /\ token = Some(ev.token)

\* a callback took the token and the transport refused its auth frame: the
\* storage is left empty
C20_Witness ==
    /\ AuthOrRetryRan
    /\ pre.token # None
    /\ Len(AuthSends) = 1
    /\ AuthSends[1].res # Ok
    /\ ret # Ok
    /\ token = None

---------------------------------------------------------------------------
\* C23: in every reachable state of a session, the auth frames handed to the
\* transport so far plus the entries of the retry mapping are at most the Open
\* frames received so far.
C23_ChainsBounded == handed + Cardinality(DOMAIN retrying) <= opens

\* the chains counted one by one: every Open frame started one, and each is
\* either waiting in the mapping or ended with its auth frame handed over
C23_ChainsCounted == handed + Cardinality(DOMAIN retrying) = opens

\* two Open frames received: one chain ended with its auth frame handed over
\* at a timer fire, the other waits in the mapping
C23_Witness ==
    /\ opens = 2
    /\ handed = 1
    /\ Cardinality(DOMAIN retrying) = 1
    /\ KnownFire
    /\ Len(AuthSends) = 1

---------------------------------------------------------------------------
\* the handles of the timers in the bag b
ArmedIn(b) == {tm.tok : tm \in BagToSet(b)}

OneTimerPerHandle ==
    \A tm \in BagToSet(timers) :
        /\ CopiesIn(tm, timers) = 1
        /\ \A other \in BagToSet(timers) : other.tok = tm.tok => other = tm

\* C24 as claimed: the handles with an armed timer are the keys of the retry
\* mapping, one timer per handle, also after a schedule call whose arming
\* failed, and a timer of the session fires only for a handle that is present.
C24_Claimed ==
    /\ ArmedIn(timers) = DOMAIN retrying
    /\ OneTimerPerHandle
    /\ Fire(ev.tok) => KnownFire

\* C24, amended: as long as no timer armed by user code has fired, every armed
\* timer of the session belongs to a key of the retry mapping, one timer per
\* handle, and a timer of the session fires only for a handle that is present;
\* a step in which the transport accepted every timer request keeps the armed
\* handles equal to the keys, and a schedule call whose arming failed leaves
\* its key in the mapping without a timer.
C24_TimersWithinKeys ==
    foreign = 0 =>
        /\ ArmedIn(timers) \subseteq DOMAIN retrying
        /\ OneTimerPerHandle
        /\ Fire(ev.tok) => KnownFire
        /\ (/\ ArmedIn(pre.timers) = DOMAIN pre.retrying
            /\ \A i \in DOMAIN TimerRequests : TimerRequests[i].res = Ok)
               => ArmedIn(timers) = DOMAIN retrying
        /\ \A i \in DOMAIN TimerRequests :
               TimerRequests[i].res # Ok =>
                   /\ TimerRequests[i].tok \in DOMAIN retrying
                   /\ TimerRequests[i].tok \notin ArmedIn(timers)

\* the arming of handle 0 failed and a later schedule call armed handle 1:
\* key 0 stays in the mapping without a timer
C24_Witness ==
    /\ foreign = 0
    /\ DOMAIN retrying = {0, 1}
    /\ ArmedIn(timers) = {1}
    /\ Len(TimerRequests) = 1
    /\ TimerRequests[1].res = Ok

---------------------------------------------------------------------------
OnCommunicationCalls == SelectSeq(calls, LAMBDA c : c.fn = "on_communication")

ForwardedFrame == IsFrame("Message") \/ IsFrame("Messages") \/ IsFrame("Close")

\* C25: handling a Message, Messages or Close frame calls on_communication
\* exactly once, first and with the parsed result, leaves the retry mapping,
\* the token storage and the armed timers as they were, and calls nothing on
\* the transport; after a Close frame the connection is still open and the
\* session takes the next frame.
C25_ForwardOnly ==
    ForwardedFrame =>
        /\ Len(OnCommunicationCalls) = 1
        /\ calls[1] = [fn |-> "on_communication",
                       result |-> parse(ev.msg.text).val]
        /\ OnErrorCalls = <<>>
        /\ retrying = pre.retrying
        /\ token = pre.token
        /\ timers = pre.timers
        /\ ws = <<>>
        /\ IsFrame("Close") => (conn = "open" /\ ENABLED OnMessage)

\* a Close frame handled while a token is stored and a retry is pending with
\* its timer armed
C25_Witness ==
    /\ IsFrame("Close")
    /\ token # None
    /\ DOMAIN retrying = {0}
    /\ timers # EmptyBag
    /\ calls = <<[fn |-> "on_communication",
                  result |-> PClose(CloseCode, <<"r">>)]>>

\* a batch of two messages forwarded while a retry is pending
C25_WitnessBatch ==
    /\ IsFrame("Messages")
    /\ DOMAIN retrying = {0}
    /\ Len(calls) = 3

---------------------------------------------------------------------------
\* the transport refused the auth frame or the retry timer of the last callback
RefusedByTransport ==
    {ws[i].res : i \in {j \in DOMAIN ws : ws[j].res # Ok}}

\* C26: on an Open frame the authenticate-or-retry action runs to its end
\* before the frame is forwarded.  The storage has been emptied and the one
\* auth frame or the one timer request has been handed to the transport;
\* whatever the session reports to on_error (Unauthorized, the transport's
\* refusal) comes before the one call of on_communication(Open), which is the
\* last call on the user Handler whether the token was present or absent and
\* whether the transport accepted or refused; the refusal is not returned from
\* the callback.
C26_OpenForwardedLast ==
    IsFrame("Open") =>
        /\ token = None
        /\ Len(ws) = 1
        /\ IF pre.token # None
           THEN Len(AuthSends) = 1 /\ ~Reported(Unauthorized)
           ELSE Len(TimerRequests) = 1 /\ calls[1].fn = "on_error"
                    /\ calls[1].err = Unauthorized
        /\ Len(OnCommunicationCalls) = 1
        /\ calls[Len(calls)] = [fn |-> "on_communication", result |-> POpen]
        /\ \A e \in RefusedByTransport :
               \E i \in 1..(Len(calls) - 1) :
                   calls[i] = [fn |-> "on_error", err |-> from_ws_error(e)]
        /\ Len(calls) = 1 + (IF pre.token = None THEN 1 ELSE 0)
                          + Cardinality(RefusedByTransport)
        /\ ret = Ok

\* the Open frame found no token and the transport refused the retry timer:
\* both reports precede the forwarding
C26_Witness ==
    /\ IsFrame("Open")
    /\ pre.token = None
    /\ Len(calls) = 3
    /\ calls[1] = [fn |-> "on_error", err |-> Unauthorized]
    /\ calls[2] = [fn |-> "on_error", err |-> from_ws_error(WsErrTimeout)]
    /\ calls[3] = [fn |-> "on_communication", result |-> POpen]
    /\ ret = Ok

\* the Open frame found a token and the transport refused the auth frame
C26_WitnessSendRefused ==
    /\ IsFrame("Open")
    /\ pre.token # None
    /\ calls = <<[fn |-> "on_error", err |-> from_ws_error(WsErrSend)],
                 [fn |-> "on_communication", result |-> POpen]>>
    /\ ret = Ok

---------------------------------------------------------------------------
\* C27: while a session has received at most one Open frame, the retry mapping
\* holds at most one entry, whose handle is 0, and every timer the session
\* asks for is tagged 0: a timer fire has removed entry 0 when the schedule
\* call that follows it probes for a free handle.
C27_OnlyHandleZero ==
    opens <= 1 =>
        /\ Cardinality(DOMAIN retrying) <= 1
        /\ DOMAIN retrying \subseteq {0}
        /\ \A i \in DOMAIN TimerRequests : TimerRequests[i].tok = 0
        /\ ArmedIn(timers) \subseteq {0}
        /\ (KnownFire /\ pre.token = None) =>
               /\ ev.tok = 0
               /\ Len(TimerRequests) = 1
               /\ DOMAIN retrying = {0}

\* after one Open frame the timer of entry 0 fires with the storage still
\* empty: the entry is removed and handle 0 is issued again
C27_Witness ==
    /\ opens = 1
    /\ foreign = 0
    /\ KnownFire
    /\ pre.token = None
    /\ DOMAIN pre.retrying = {0}
    /\ DOMAIN retrying = {0}
    /\ Len(TimerRequests) = 1
    /\ TimerRequests[1].tok = 0
    /\ TimerRequests[1].res = Ok

---------------------------------------------------------------------------
\* Endpoints: EndpointResult::from_raw of login, template and recent-pvp.

RawOk(v) == [ok |-> TRUE, val |-> v]
RawErr(e) == [ok |-> FALSE, err |-> e]

NotOk(ok) == [kind |-> "NotOk", ok |-> ok]
MissingField(name) == [kind |-> "MissingField", field |-> name]

\* ApiError (and a room name's parse error) turned into the crate's Error
from_api_error(e) == [type |-> "Api", inner |-> e]
from_room_name_error(e) == [type |-> "RoomName", inner |-> e]

\* the ok field of a response, an i32
OkValues == -1..MaxOk

\* String into Token: the bytes of the string, which are its characters here
String_into_Token(s) == s

\* login::Response
LoginResponses ==
    [ok : OkValues, token : {None} \cup {Some(t) : t \in Tokens \cup {<<>>}}]

\* from_raw of login taking every ok of 1 or more for a success
LoggedIn_from_raw_lenient(raw) ==
    IF raw.ok < 1 THEN RawErr(from_api_error(NotOk(raw.ok)))
    ELSE IF raw.token # None
         THEN RawOk([token |-> String_into_Token(raw.token[1])])
         ELSE RawErr(from_api_error(MissingField("token")))

\* <LoggedIn as EndpointResult>::from_raw
LoggedIn_from_raw(raw) ==
    IF raw.ok # 1 THEN RawErr(from_api_error(NotOk(raw.ok)))
    ELSE IF raw.token # None
         THEN RawOk([token |-> String_into_Token(raw.token[1])])
         ELSE RawErr(from_api_error(MissingField("token")))

\* template::Response
TemplateResponses == [ok : OkValues]

\* <CallInfo as EndpointResult>::from_raw
CallInfo_from_raw(raw) ==
    IF raw.ok # 1 THEN RawErr(from_api_error(NotOk(raw.ok)))
    ELSE RawOk([info |-> "CallInfo"])

\* _id of a room: a name of the shape E5N3, and one that is no room name
RoomIds == {<<"E", "5", "N", "3">>, <<"x">>}

\* data::RoomName::new: east or west with a digit, north or south with a digit
RoomName_new(id) ==
    IF /\ Len(id) = 4
       /\ id[1] \in {"E", "W"}
       /\ id[3] \in {"N", "S"}
       /\ id[2] \in {"0", "1", "2", "3", "4", "5", "6", "7", "8", "9"}
       /\ id[4] \in {"0", "1", "2", "3", "4", "5", "6", "7", "8", "9"}
    THEN RawOk([we |-> id[1], x |-> id[2], ns |-> id[3], y |-> id[4]])
    ELSE RawErr(id)

\* recent_pvp::InnerRoom, InnerShard and Response; the game times are fixed
InnerRooms == [id : RoomIds, last_pvp_time : {7}]

InnerShards ==
    [rooms : UNION {[1..n -> InnerRooms] : n \in 0..MaxRooms}, time : {9}]

ShardNames == <<<<"s", "0">>, <<"s", "1">>, <<"s", "2">>, <<"s", "3">>>>

PvpMaps ==
    UNION {{[i \in 1..n |-> <<ShardNames[i], f[i]>>] : f \in [1..n -> InnerShards]}
               : n \in 0..MaxShards}

RecentPvpResponses == [ok : OkValues, pvp : PvpMaps]

\* Iterator::collect::<Result<_>>: the first error in order, or every value
collect(results) ==
    LET bad == {i \in DOMAIN results : ~results[i].ok} IN
    IF bad # {}
    THEN RawErr(results[CHOOSE i \in bad : \A j \in bad : i <= j].err)
    ELSE RawOk([i \in DOMAIN results |-> results[i].val])

\* |r| Ok((data::RoomName::new(&r._id)?, r.last_pvp_time))
room_of(r) ==
    LET n == RoomName_new(r.id) IN
    IF n.ok THEN RawOk(<<n.val, r.last_pvp_time>>)
    ELSE RawErr(from_room_name_error(n.err))

\* |(name, data)| Ok((name, ShardRecentPvp { .. }))
shard_of(entry) ==
    LET name == entry[1]
        data == entry[2]
        rooms == collect([i \in DOMAIN data.rooms |-> room_of(data.rooms[i])])
    IN IF rooms.ok
       THEN RawOk(<<name, [rooms |-> rooms.val, reported_up_to |-> data.time]>>)
       ELSE rooms

\* <RecentPvp as EndpointResult>::from_raw
RecentPvp_from_raw(raw) ==
    IF raw.ok # 1 THEN RawErr(from_api_error(NotOk(raw.ok)))
    ELSE LET shards == collect([i \in DOMAIN raw.pvp |-> shard_of(raw.pvp[i])])
         IN IF shards.ok THEN RawOk([shards |-> shards.val]) ELSE shards

\* A call of from_raw reads only its argument: each behaviour makes one call.
Called(endpoint, raw, result) ==
    /\ Fresh
    /\ ev' = [cb |-> "from_raw", endpoint |-> endpoint, raw |-> raw,
              result |-> result]
    /\ pre' = Snapshot
    /\ ws' = <<>>
    /\ calls' = <<>>
    /\ ret' = Ok
    /\ UNCHANGED <<token, retrying, timers, conn, opens, auths, foreign, peer, uses,
                   handed, http>>

CallLoginFromRaw ==
    \E raw \in LoginResponses : Called("login", raw, LoggedIn_from_raw(raw))

CallTemplateFromRaw ==
    \E raw \in TemplateResponses : Called("template", raw, CallInfo_from_raw(raw))

CallRecentPvpFromRaw ==
    \E raw \in RecentPvpResponses :
        Called("recent_pvp", raw, RecentPvp_from_raw(raw))

EndpointNext ==
    \/ CallLoginFromRaw
    \/ CallTemplateFromRaw
    \/ CallRecentPvpFromRaw

EndpointSpec == SenderInit /\ [][EndpointNext]_vars

---------------------------------------------------------------------------
IsFromRaw(endpoint) == ev.cb = "from_raw" /\ ev.endpoint = endpoint

\* C22: for login, recent-pvp and template, from_raw returns the NotOk(ok)
\* error whenever ok is not 1, whatever the other fields hold, and returns a
\* result only when ok is 1; for login, ok = 1 without a token returns the
\* MissingField("token") error and ok = 1 with a token returns a LoggedIn
\* holding exactly that token.
C22_NotOkFirst ==
    ev.cb = "from_raw" =>
        /\ ev.raw.ok # 1 =>
               ev.result = [ok |-> FALSE,
                            err |-> [type |-> "Api",
                                     inner |-> [kind |-> "NotOk", ok |-> ev.raw.ok]]]
        /\ ev.result.ok => ev.raw.ok = 1
        /\ (IsFromRaw("login") /\ ev.raw.ok = 1 /\ ev.raw.token = None) =>
               ev.result = [ok |-> FALSE,
                            err |-> [type |-> "Api",
                                     inner |-> [kind |-> "MissingField",
                                                field |-> "token"]]]
        /\ (IsFromRaw("login") /\ ev.raw.ok = 1 /\ ev.raw.token # None) =>
               /\ ev.result.ok
               /\ ev.result.val.token = ev.raw.token[1]
        /\ (IsFromRaw("template") /\ ev.raw.ok = 1) => ev.result.ok

\* a recent-pvp response with ok = 2 whose second shard holds a room id that
\* is no room name: the answer is NotOk(2)
C22_Witness ==
    /\ IsFromRaw("recent_pvp")
    /\ ev.raw.ok = 2
    /\ Len(ev.raw.pvp) = 2
    /\ Len(ev.raw.pvp[2][2].rooms) = 1
    /\ ev.raw.pvp[2][2].rooms[1].id = <<"x">>
    /\ ~ev.result.ok
    /\ ev.result.err.inner.kind = "NotOk"

\* a login response with ok = 1 and a token
C22_WitnessLoggedIn ==
    /\ IsFromRaw("login")
    /\ ev.raw.ok = 1
    /\ ev.raw.token = Some(<<"t", "1">>)
    /\ ev.result.ok
    /\ ev.result.val.token = <<"t", "1">>

---------------------------------------------------------------------------
\* The HTTP layer: connecting::interpret, the chain of futures that turns the
\* transport's answer into the result of an endpoint.

\* header names as the transport holds them, in lower case; values are bytes
HeaderNames == {"x-token", "date"}

HeaderValues == Tokens \cup {<<>>}

\* X-Token with each value, and one other header
HeaderLines ==
    {[name |-> "x-token", value |-> v] : v \in HeaderValues}
        \cup {[name |-> "date", value |-> <<"1">>]}

Headers == UNION {[1..n -> HeaderLines] : n \in 0..MaxHeaders}

Statuses == {200, 401}

\* what the request future resolves to: a response, or the transport's error
HyperResults ==
    {RawErr("HyperError")}
        \cup {RawOk(r) : r \in [headers : Headers, status : Statuses]}

\* the endpoints a request is made for
Endpoints == {"login", "template"}

\* bodies: text that is no JSON, and JSON objects with some of the fields
\* ok, token and error
JsonObjects ==
    {[ok |-> o] : o \in 0..1}
        \cup {[ok |-> o, token |-> t] : o \in 0..1, t \in Tokens}
        \cup {[token |-> t] : t \in Tokens}
        \cup {[error |-> "e"], [ok |-> 0, error |-> "e"]}

Bodies == {[json |-> FALSE]} \cup {[json |-> TRUE, val |-> j] : j \in JsonObjects}

\* what concat2 resolves to: the whole body, or the transport's error
BodyResults == {RawErr("HyperError")} \cup {RawOk(b) : b \in Bodies}

\* Error::with_url, with_json and with_body
with_url(e) == [err |-> e]
with_json(e, json) == [err |-> e, json |-> json]
with_body(e, data) == [err |-> e, body |-> data]

\* HeaderMap::get: the first value under the name
HeaderMap_get(headers, name) ==
    LET at == {i \in DOMAIN headers : headers[i].name = name} IN
    IF at = {} THEN None
    ELSE Some(headers[CHOOSE i \in at : \A j \in at : i <= j].value)

\* token.as_bytes().into()
bytes_into_Token(b) == b

\* StatusCode::is_success
is_success(status) == 200 <= status /\ status < 300

\* serde_json::from_slice
from_slice(data) == IF data.json THEN RawOk(data.val) ELSE RawErr("JsonSyntax")

\* deserializing R::RequestResult: ok is required, token may be missing
deserialize_request(endpoint, json) ==
    IF "ok" \notin DOMAIN json THEN RawErr("missing field ok")
    ELSE CASE endpoint = "login" ->
                  RawOk([ok |-> json.ok,
                         token |-> IF "token" \in DOMAIN json
                                   THEN Some(json.token) ELSE None])
           [] endpoint = "template" -> RawOk([ok |-> json.ok])

\* deserializing R::ErrorResult, data::ApiError
deserialize_error(json) ==
    IF "error" \in DOMAIN json THEN RawOk([error |-> json.error])
    ELSE RawErr("missing field error")

deserialize_with_warnings(endpoint, json) ==
    LET first == deserialize_request(endpoint, json) IN
    IF first.ok THEN first
    ELSE LET second == deserialize_error(json) IN
         IF second.ok THEN RawErr(with_json(second.val, json))
         ELSE RawErr(with_json(first.err, json))

from_raw(endpoint, raw) ==
    CASE endpoint = "login" -> LoggedIn_from_raw(raw)
      [] endpoint = "template" -> CallInfo_from_raw(raw)

\* the first closures of interpret reading the status before the header
interpret_head_checked(slot, result) ==
    IF ~result.ok
    THEN [slot |-> slot, sets |-> <<>>, out |-> RawErr(with_url(result.err))]
    ELSE LET h == HeaderMap_get(result.val.headers, "x-token") IN
         IF h # None /\ is_success(result.val.status)
         THEN [slot |-> set_token(slot, bytes_into_Token(h[1])),
               sets |-> <<bytes_into_Token(h[1])>>,
               out |-> RawOk(result.val)]
         ELSE [slot |-> slot, sets |-> <<>>, out |-> RawOk(result.val)]

\* interpret, the closures that run when the request future resolves: the
\* transport's error gets the url; a response with X-Token sets the storage
interpret_head(slot, result) ==
    IF ~result.ok
    THEN [slot |-> slot, sets |-> <<>>, out |-> RawErr(with_url(result.err))]
    ELSE LET h == HeaderMap_get(result.val.headers, "x-token") IN
         IF h # None
         THEN [slot |-> set_token(slot, bytes_into_Token(h[1])),
               sets |-> <<bytes_into_Token(h[1])>>,
               out |-> RawOk(result.val)]
         ELSE [slot |-> slot, sets |-> <<>>, out |-> RawOk(result.val)]

\* interpret, the closures that run when the body future resolves
interpret_body(endpoint, status, result) ==
    IF ~result.ok THEN RawErr(with_url(result.err))
    ELSE LET data == result.val
             json_result == from_slice(data)
         IN IF ~is_success(status)
            THEN IF json_result.ok
                 THEN RawErr(with_json(status, json_result.val))
                 ELSE RawErr(with_body(status, data))
            ELSE IF ~json_result.ok
                 THEN RawErr(with_body(json_result.err, data))
                 ELSE LET json == json_result.val
                          parsed == deserialize_with_warnings(endpoint, json)
                      IN IF ~parsed.ok THEN RawErr(with_json(parsed.err, json))
                         ELSE LET r == from_raw(endpoint, parsed.val) IN
                              IF r.ok THEN r
                              ELSE RawErr(with_json(r.err, json))

\* The request future of a call resolves.
InterpretHead ==
    \E endpoint \in Endpoints, result \in HyperResults :
      \E r \in {interpret_head(token, result)} :
        /\ http.stage = "idle"
        /\ http.n < MaxResponses
        /\ token' = r.slot
        /\ uses' = IF r.sets = <<>> THEN uses ELSE 0
        /\ http' = IF r.out.ok
                   THEN [stage |-> "body", n |-> http.n + 1,
                         endpoint |-> endpoint, response |-> r.out.val]
                   ELSE [stage |-> "idle", n |-> http.n + 1]
        /\ ev' = [cb |-> "interpret_head", endpoint |-> endpoint,
                  result |-> result, sets |-> r.sets, out |-> r.out]
        /\ pre' = Snapshot
        /\ ws' = <<>>
        /\ calls' = <<>>
        /\ ret' = Ok
        /\ UNCHANGED <<retrying, timers, conn, opens, auths, foreign, peer, handed>>

\* The body future of the response resolves.
InterpretBody ==
    \E result \in BodyResults :
        /\ http.stage = "body"
        /\ http' = [stage |-> "idle", n |-> http.n]
        /\ ev' = [cb |-> "interpret_body", endpoint |-> http.endpoint,
                  response |-> http.response, result |-> result, sets |-> <<>>,
                  out |-> interpret_body(http.endpoint, http.response.status,
                                         result)]
        /\ pre' = Snapshot
        /\ ws' = <<>>
        /\ calls' = <<>>
        /\ ret' = Ok
        /\ UNCHANGED <<token, retrying, timers, conn, opens, auths, foreign, peer,
                       uses, handed>>

\* LoggedIn::return_to, called by user code on the result of a login
ReturnTo ==
    /\ ev.cb = "interpret_body"
    /\ ev.endpoint = "login"
    /\ ev.out.ok
    /\ token' = set_token(token, ev.out.val.token)
    /\ uses' = 0
    /\ ev' = [cb |-> "return_to", sets |-> <<ev.out.val.token>>]
    /\ pre' = Snapshot
    /\ ws' = <<>>
    /\ calls' = <<>>
    /\ ret' = Ok
    /\ UNCHANGED <<retrying, timers, conn, opens, auths, foreign, peer, handed,
                   http>>

HttpNext ==
    \/ InterpretHead
    \/ InterpretBody
    \/ ReturnTo

HttpSpec == Init /\ [][HttpNext]_vars

---------------------------------------------------------------------------
\* the values of the X-Token headers of a response, in order
XTokens(headers) ==
    LET at(i) == headers[i].name = "x-token" IN
    [i \in 1..Cardinality({j \in DOMAIN headers : at(j)}) |->
        headers[CHOOSE j \in DOMAIN headers :
                    at(j) /\ Cardinality({k \in 1..j : at(k)}) = i].value]

\* C21: when the HTTP layer interprets a response, the storage is set, once
\* and to the value of the X-Token header, if and only if the response carries
\* that header; a response without it, and a request that failed, leave the
\* storage as it was.  The set is done when the response arrives: the storage
\* holds the header's value while the body is awaited, whatever it held
\* before, and the closures that examine the status and the body set nothing,
\* so it still holds that value when the status is an error or the body fails
\* to parse.
C21_SetIffHeader ==
    /\ ev.cb = "interpret_head" =>
           IF ev.result.ok /\ XTokens(ev.result.val.headers) # <<>>
           THEN /\ ev.sets = <<XTokens(ev.result.val.headers)[1]>>
                /\ token = Some(XTokens(ev.result.val.headers)[1])
                /\ http.stage = "body"
           ELSE /\ ev.sets = <<>>
                /\ token = pre.token
    /\ ev.cb = "interpret_body" =>
           /\ ev.sets = <<>>
           /\ token = pre.token
           /\ XTokens(ev.response.headers) # <<>> =>
                  token = Some(XTokens(ev.response.headers)[1])

\* a response with status 401 and a body that is no JSON carried X-Token: the
\* result is the status error and the storage holds the header's value
C21_Witness ==
    /\ ev.cb = "interpret_body"
    /\ ev.response.status = 401
    /\ ev.result = RawOk([json |-> FALSE])
    /\ ~ev.out.ok
    /\ XTokens(ev.response.headers) = <<<<"k", "\"">>>>
    /\ token = Some(<<"k", "\"">>)

\* a second response carrying X-Token replaces the value set by the first
C21_WitnessOverwrite ==
    /\ ev.cb = "interpret_head"
    /\ http.n = 2
    /\ pre.token = Some(<<"t", "1">>)
    /\ token = Some(<<"k", "\"">>)
    /\ ev.sets = <<<<"k", "\"">>>>

====
